---------------------------- MODULE Spec2Model ----------------------------
(***************************************************************************)
(* Model of the nerpda anonymizer: the regex/checksum detector (ner.py),   *)
(* the format-preserving generators (pda.py) and the merge / dispatch /    *)
(* splice pipeline (ner_anonymizer.py).                                    *)
(*                                                                         *)
(* A Python str is a sequence of characters; a character is a one-symbol   *)
(* string.  Characters outside ASCII are written as ASCII tokens: "c_A",   *)
(* "c_B" are uppercase Cyrillic letters, "c_a" a lowercase Cyrillic        *)
(* letter, "No" the numero sign U+2116, "sup2" SUPERSCRIPT TWO U+00B2.     *)
(* Python offsets are 0-based and half-open; TLA+ sequences are 1-based,   *)
(* so text[a:b] is SubSeq(text, a+1, b).                                   *)
(*                                                                         *)
(* Specifications: Spec, one call of anonymize or extract_and_anonymize;   *)
(* SpecMask, the same for an anonymizer in mask mode; SpecSplice, the      *)
(* splice loop on any instruction list; SpecGen, one call of a generator;  *)
(* SpecDetect, one call of RegexNER.extract_entities; SpecRemask, a call   *)
(* in mask mode and the detector run over its result; SpecDispatch, one    *)
(* call of _get_replacement; SpecLife, an anonymizer from its construction *)
(* through any number of calls.                                            *)
(***************************************************************************)
EXTENDS Integers, Sequences, FiniteSets, TLC

VARIABLES
    pc,               \* "ready" before the call, "done" after it returned;
                      \* "new", "raised", "idle" around __init__ and between
                      \* calls, "redetected" after a second scan
    op,               \* the operation that was called
    mode,             \* NERAnonymizer.mode
    text,             \* the str argument of the call
    name_features,    \* the features argument of a name generator call
    natasha_entities, \* what NatashaNER.extract_names returned
    regex_entities,   \* what RegexNER.extract_entities returned
    all_entities,     \* the merged, sorted entity list
    replacements,     \* the (start, end, replacement) list of anonymize
    result_text,      \* the str the call returned
    random_state      \* the variates the call drew from the random module

vars == <<pc, op, mode, text, name_features, natasha_entities, regex_entities,
          all_entities, replacements, result_text, random_state>>

-----------------------------------------------------------------------------
(* Bounds of the model *)

\* longest text handed to the splicer on its own
MaxTextLen == 6
\* most instructions in one splice
MaxInstr == 2
\* longest replacement string in a free-standing instruction
MaxReplLen == 2
\* the streams of random variates considered repeat a block of at most RandBlock
RandBlock == 2
\* most fragments in one text given to the anonymizer
MaxFragments == 2
\* most name tokens NatashaNER reports for one text
MaxNames == 2
\* longest run of digits in an input of a generator or of the detector
MaxRun == 20

-----------------------------------------------------------------------------
(* Python str and list primitives *)

Min(a, b) == IF a < b THEN a ELSE b
Max(a, b) == IF a < b THEN b ELSE a

\* s[a:b] for 0 <= a, 0 <= b: both ends are clamped to len(s)
PySlice(s, a, b) ==
    LET lo == Min(a, Len(s))
        hi == Min(b, Len(s))
    IN  IF lo >= hi THEN <<>> ELSE SubSeq(s, lo + 1, hi)

\* s[a:]
PyFrom(s, a) == PySlice(s, a, Len(s))

\* c * n for a one-character string c
\* a faulty variant: the character once, whatever n
RepeatOnce(c, n) == <<c>>

Repeat(c, n) == [i \in 1..n |-> c]

DigitChars == {"0", "1", "2", "3", "4", "5", "6", "7", "8", "9"}

\* int(d) for one decimal digit character
DigitVal(c) ==
    CASE c = "0" -> 0 [] c = "1" -> 1 [] c = "2" -> 2 [] c = "3" -> 3
      [] c = "4" -> 4 [] c = "5" -> 5 [] c = "6" -> 6 [] c = "7" -> 7
      [] c = "8" -> 8 [] c = "9" -> 9

\* str(n) for 0 <= n <= 9
DigitChar(n) == <<"0", "1", "2", "3", "4", "5", "6", "7", "8", "9">>[n + 1]

\* \d of a str pattern, for the characters of the model: a decimal digit
IsDecimal(c) == c \in DigitChars

\* str.isdigit() of one character: the decimal digits and also the digit-like
\* characters that are no decimal digit, such as SUPERSCRIPT TWO ("sup2"), which
\* \d does not match and int() rejects
IsDigit(c) == c \in DigitChars \/ c = "sup2"

\* s.isdigit(): non-empty and every character a digit
IsDigitStr(s) == Len(s) > 0 /\ \A i \in 1..Len(s) : IsDigit(s[i])

-----------------------------------------------------------------------------
(* TextSplicer: ner_anonymizer.py, the tail of NERAnonymizer.anonymize *)

\* a faulty variant: the span is not cut out, the replacement is put in
\* before it
ApplyOneKeepSpan(t, ins) == PySlice(t, 0, ins.start) \o ins.repl \o PyFrom(t, ins.start)

\* one step of the loop body: result_text[:start] + replacement + result_text[end:]
ApplyOne(t, ins) == PySlice(t, 0, ins.start) \o ins.repl \o PyFrom(t, ins.end)

\* list.sort / sorted keyed on the start offset, stable; descending with
\* reverse=True, which keeps the original order of elements whose keys are
\* equal.  Insertion of e into an already sorted list, behind every element
\* whose key does not come after e's.
RECURSIVE InsertByStart(_, _, _)
InsertByStart(sorted, e, desc) ==
    IF sorted = <<>> THEN <<e>>
    ELSE LET h == Head(sorted)
             eFirst == IF desc THEN e.start > h.start ELSE e.start < h.start
         IN  IF eFirst THEN <<e>> \o sorted
             ELSE <<h>> \o InsertByStart(Tail(sorted), e, desc)

RECURSIVE SortFrom(_, _, _)
SortFrom(done, rest, desc) ==
    IF rest = <<>> THEN done
    ELSE SortFrom(InsertByStart(done, Head(rest), desc), Tail(rest), desc)

\* a faulty variant: reverse=True forgotten, the instructions are applied in
\* ascending order of start
SortedAscByStart(repls) == SortFrom(<<>>, repls, FALSE)

\* sorted(replacements, key=lambda x: x[0], reverse=True)
SortedDescByStart(repls) == SortFrom(<<>>, repls, TRUE)

RECURSIVE ApplyAll(_, _)
ApplyAll(t, instrs) ==
    IF instrs = <<>> THEN t
    ELSE ApplyAll(ApplyOne(t, Head(instrs)), Tail(instrs))

\* the loop of lines 57-61
\* a faulty variant: an instruction whose span overlaps the span of one taken
\* before it is skipped
SpliceSkipOverlapping(t, repls) ==
    LET sorted == SortedDescByStart(repls)
        free(i) == \A j \in 1..(i - 1) : sorted[i].end <= sorted[j].start
    IN  ApplyAll(t, [i \in 1..Len(sorted) |->
                        IF free(i) THEN sorted[i]
                        ELSE [start |-> 0, end |-> 0, repl |-> <<>>]])

Splice(t, repls) == ApplyAll(t, SortedDescByStart(repls))

-----------------------------------------------------------------------------
(* Character classes of the regular expressions in ner.py *)

AsciiUpper == {"A", "B", "C", "D", "E", "F", "G", "H", "I", "J", "K", "L", "M",
               "N", "O", "P", "Q", "R", "S", "T", "U", "V", "W", "X", "Y", "Z"}
AsciiLower == {"a", "b", "c", "d", "e", "f", "g", "h", "i", "j", "k", "l", "m",
               "n", "o", "p", "q", "r", "s", "t", "u", "v", "w", "x", "y", "z"}
\* the Cyrillic letters of the model's alphabet
CyrUpper == {"c_A", "c_B", "c_V", "c_N"}
CyrLower == {"c_a", "c_b", "c_v", "c_d", "c_e", "c_k", "c_n", "c_o", "c_r", "c_t", "c_y"}

\* \w of a str pattern: letters of any script, digits, underscore
IsWord(c) ==
    IsDecimal(c) \/ c = "sup2" \/ c \in AsciiUpper \/ c \in AsciiLower \/ c \in CyrUpper
    \/ c \in CyrLower \/ c = "_"

\* \s
IsSpace(c) == c \in {" ", "\t", "\n"}

\* membership of c in the character class named cls
InClass(cls, c) ==
    CASE cls = "digit" -> IsDecimal(c)                          \* \d
      [] cls = "sep" -> c \in {" ", "-"}                       \* [ -]
      [] cls = "space" -> IsSpace(c)                           \* \s
      [] cls = "local" ->                                      \* [A-Za-z0-9._%+-]
            IsDecimal(c) \/ c \in AsciiUpper \/ c \in AsciiLower
            \/ c \in {".", "_", "%", "+", "-"}
      [] cls = "domain" ->                                     \* [A-Za-z0-9.-]
            IsDecimal(c) \/ c \in AsciiUpper \/ c \in AsciiLower \/ c \in {".", "-"}
      [] cls = "alpha" -> c \in AsciiUpper \/ c \in AsciiLower \* [A-Za-z]
      [] cls = "roman" ->                                      \* [IVXLCDM], IGNORECASE
            c \in {"I", "V", "X", "L", "C", "D", "M", "i", "v", "x", "l", "c", "d", "m"}
      [] cls = "cyr" -> c \in CyrUpper \/ c \in CyrLower       \* Cyrillic capitals, IGNORECASE

\* the character at 0-based offset p, "" outside the string
At(s, p) == IF p >= 0 /\ p < Len(s) THEN s[p + 1] ELSE ""

\* \b at offset p: exactly one of the two neighbours is a word character
WordBoundary(s, p) == IsWord(At(s, p - 1)) # IsWord(At(s, p))

\* the end of the longest run of cls characters that starts at p
RECURSIVE RunEnd(_, _, _)
RunEnd(cls, s, p) ==
    IF p < Len(s) /\ InClass(cls, s[p + 1]) THEN RunEnd(cls, s, p + 1) ELSE p

\* \d{n} at p: the offset behind it, or -1
DigitsEnd(s, p, n) ==
    IF p >= 0 /\ p + n <= Len(s) /\ \A j \in 1..n : IsDecimal(s[p + j])
    THEN p + n ELSE -1

\* \s*\d{n} at p (p >= 0): the offset behind it, or -1
SpacedDigitsEnd(s, p, n) ==
    IF p < 0 THEN -1 ELSE DigitsEnd(s, RunEnd("space", s, p), n)

-----------------------------------------------------------------------------
(* RegexNER.__init__: the eight compiled patterns.  Each operator gives, for *)
(* a start offset i, the end offset of the match the backtracking engine    *)
(* finds there, or -1 when the pattern does not match at i.                 *)

\* the repetition bounds of card_pattern, {13,19}
CardMinDigits == 13
CardMaxDigits == 19

\* (?:\d[ -]*?){13,19}\b from the digit expected at p, k groups matched so far.
\* The separators are lazy: below 13 groups the only way on is the next digit,
\* so they are all consumed; from 13 groups on the engine tries the next group
\* first (a digit must follow at once) and then \b, and a separator behind the
\* digit satisfies \b, so the match ends at the digit.
RECURSIVE CardWalk(_, _, _)
CardWalk(s, p, k) ==
    IF ~IsDecimal(At(s, p)) THEN -1
    ELSE LET q == p + 1 IN
         IF k + 1 < CardMinDigits THEN CardWalk(s, RunEnd("sep", s, q), k + 1)
         ELSE IF k + 1 < CardMaxDigits /\ IsDecimal(At(s, q)) THEN CardWalk(s, q, k + 1)
         ELSE IF WordBoundary(s, q) THEN q
         ELSE -1

\* card_pattern = \b(?:\d[ -]*?){13,19}\b
CardMatchEnd(s, i) == IF WordBoundary(s, i) THEN CardWalk(s, i, 0) ELSE -1

\* ogrnip_pattern = \b\d{15}\b
OgrnipMatchEnd(s, i) ==
    LET e == DigitsEnd(s, i, 15)
    IN  IF WordBoundary(s, i) /\ e >= 0 /\ WordBoundary(s, e) THEN e ELSE -1

\* one octet (?:25[0-5]|2[0-4][0-9]|[01]?[0-9][0-9]?) at p that has to be
\* followed by a non-digit ("." or \b): the whole digit run at p
OctetEnd(s, p) ==
    IF p < 0 THEN -1
    ELSE LET e == RunEnd("digit", s, p)
             r == e - p
             d1 == DigitVal(At(s, p))
             d2 == DigitVal(At(s, p + 1))
             d3 == DigitVal(At(s, p + 2))
         IN  IF r = 1 \/ r = 2 THEN e
             ELSE IF r = 3 /\ (d1 <= 1 \/ (d1 = 2 /\ d2 <= 4)
                               \/ (d1 = 2 /\ d2 = 5 /\ d3 <= 5)) THEN e
             ELSE -1

\* an octet followed by "\."
OctetDotEnd(s, p) ==
    LET e == OctetEnd(s, p) IN IF e >= 0 /\ At(s, e) = "." THEN e + 1 ELSE -1

\* ip_pattern = \b(?:octet\.){3}octet\b
IpMatchEnd(s, i) ==
    LET e == OctetEnd(s, OctetDotEnd(s, OctetDotEnd(s, OctetDotEnd(s, i))))
    IN  IF WordBoundary(s, i) /\ e >= 0 /\ WordBoundary(s, e) THEN e ELSE -1

\* \.[A-Za-z]{2,}\b with the "." at k: the offset behind the letters, or -1
TldEnd(s, k) ==
    LET e == RunEnd("alpha", s, k + 1)
    IN  IF At(s, k) = "." /\ e - (k + 1) >= 2 /\ WordBoundary(s, e) THEN e ELSE -1

\* the greedy domain [A-Za-z0-9.-]+ gives back characters down to offset k;
\* lo is the first offset the "." may stand at
RECURSIVE DomainBack(_, _, _)
DomainBack(s, k, lo) ==
    IF k < lo THEN -1
    ELSE IF TldEnd(s, k) >= 0 THEN TldEnd(s, k)
    ELSE DomainBack(s, k - 1, lo)

\* email_pattern = \b[A-Za-z0-9._%+-]+@[A-Za-z0-9.-]+\.[A-Za-z]{2,}\b
EmailMatchEnd(s, i) ==
    LET a == RunEnd("local", s, i)
        m == RunEnd("domain", s, a + 1)
    IN  IF WordBoundary(s, i) /\ a > i /\ At(s, a) = "@"
        THEN DomainBack(s, m - 1, a + 2)
        ELSE -1

\* birth_cert_pattern = \b(?:[IVXLCDM]+-[cyrillic capital]{2}\s*<numero>\d{6})\b,
\* re.IGNORECASE
BirthCertMatchEnd(s, i) ==
    LET r == RunEnd("roman", s, i)
        n == RunEnd("space", s, r + 3)
        e == DigitsEnd(s, n + 1, 6)
    IN  IF WordBoundary(s, i) /\ r > i /\ At(s, r) = "-"
           /\ InClass("cyr", At(s, r + 1)) /\ InClass("cyr", At(s, r + 2))
           /\ At(s, n) = "No" /\ e >= 0 /\ WordBoundary(s, e)
        THEN e ELSE -1

\* kladr_pattern = \b\d{2}\s*\d{2}\s*\d{3}\s*\d{2}\b
KladrMatchEnd(s, i) ==
    LET e == SpacedDigitsEnd(s, SpacedDigitsEnd(s,
                 SpacedDigitsEnd(s, DigitsEnd(s, i, 2), 2), 3), 2)
    IN  IF WordBoundary(s, i) /\ e >= 0 /\ WordBoundary(s, e) THEN e ELSE -1

\* inn_pattern = \b\d{10,12}\b: the greedy count, given back one at a time
InnMatchEnd(s, i) ==
    IF ~WordBoundary(s, i) THEN -1
    ELSE IF DigitsEnd(s, i, 12) >= 0 /\ WordBoundary(s, i + 12) THEN i + 12
    ELSE IF DigitsEnd(s, i, 11) >= 0 /\ WordBoundary(s, i + 11) THEN i + 11
    ELSE IF DigitsEnd(s, i, 10) >= 0 /\ WordBoundary(s, i + 10) THEN i + 10
    ELSE -1

\* passport_pattern = \b\d{4}\s*\d{6}\b
PassportMatchEnd(s, i) ==
    LET e == SpacedDigitsEnd(s, DigitsEnd(s, i, 4), 6)
    IN  IF WordBoundary(s, i) /\ e >= 0 /\ WordBoundary(s, e) THEN e ELSE -1

MatchEnd(pat, s, i) ==
    CASE pat = "card" -> CardMatchEnd(s, i)
      [] pat = "ogrnip" -> OgrnipMatchEnd(s, i)
      [] pat = "ip" -> IpMatchEnd(s, i)
      [] pat = "email" -> EmailMatchEnd(s, i)
      [] pat = "birth_cert" -> BirthCertMatchEnd(s, i)
      [] pat = "kladr" -> KladrMatchEnd(s, i)
      [] pat = "inn" -> InnMatchEnd(s, i)
      [] pat = "passport" -> PassportMatchEnd(s, i)

\* what the engine finds at each start offset 0 .. len(s) - 1
MatchEnds(pat, s) == [i \in 0..(Len(s) - 1) |-> MatchEnd(pat, s, i)]

\* pattern.finditer(text): the matches from left to right, each search starting
\* where the previous match ended (no pattern here matches the empty string);
\* ends are the MatchEnds of the pattern
RECURSIVE FindIter(_, _)
FindIter(ends, pos) ==
    IF pos \notin DOMAIN ends THEN <<>>
    ELSE IF ends[pos] >= 0
         THEN <<[start |-> pos, end |-> ends[pos]]>> \o FindIter(ends, ends[pos])
         ELSE FindIter(ends, pos + 1)

-----------------------------------------------------------------------------
(* RegexNER: the checksum validators *)

\* s.replace(' ', '').replace('-', '')
StripSeparators(s) == SelectSeq(s, LAMBDA c : c # " " /\ c # "-")

\* the loop of luhn_algorithm over the 0-based indices i .. len-1
RECURSIVE LuhnTotal(_, _)
LuhnTotal(d, i) ==
    IF i >= Len(d) THEN 0
    ELSE LET digit == DigitVal(d[i + 1])
             doubled == IF digit * 2 > 9 THEN digit * 2 - 9 ELSE digit * 2
         IN  (IF i % 2 = Len(d) % 2 THEN doubled ELSE digit) + LuhnTotal(d, i + 1)

luhn_algorithm(card_number) ==
    LET d == StripSeparators(card_number)
    IN  IF ~IsDigitStr(d) THEN FALSE ELSE LuhnTotal(d, 0) % 10 = 0

\* int(s) % m for a digit string s.  Python integers are unbounded; the value is
\* reduced digit by digit, (10 a + d) mod m, which is the same number.
RECURSIVE IntMod(_, _, _)
IntMod(s, m, acc) ==
    IF s = <<>> THEN acc
    ELSE IntMod(Tail(s), m, (acc * 10 + DigitVal(Head(s))) % m)

\* a faulty variant: the control digit taken modulo 13, as anonymize_ogrnip does
validate_ogrnip_mod13(ogrnip) ==
    IF Len(ogrnip) # 15 \/ ~IsDigitStr(ogrnip) THEN FALSE
    ELSE IntMod(SubSeq(ogrnip, 1, 14), 13, 0) % 10 = DigitVal(ogrnip[15])

validate_ogrnip(ogrnip) ==
    IF Len(ogrnip) # 15 \/ ~IsDigitStr(ogrnip) THEN FALSE
    ELSE LET main_part_mod == IntMod(SubSeq(ogrnip, 1, 14), 11, 0)
             control_digit == DigitVal(ogrnip[15])
             calculated_control == main_part_mod % 10
         IN  calculated_control = control_digit

\* sum(int(inn[i]) * coefficients[i] for i in range(n))
RECURSIVE WeightedSum(_, _, _)
WeightedSum(digits, coefficients, n) ==
    IF n = 0 THEN 0
    ELSE DigitVal(digits[n]) * coefficients[n] + WeightedSum(digits, coefficients, n - 1)

\* a faulty variant: the third weight 11 for 10, which no change of the third
\* digit can move modulo 11
validate_inn_weight11(inn0) ==
    LET inn == StripSeparators(inn0)
    IN  IF ~IsDigitStr(inn) \/ Len(inn) # 10 THEN FALSE
        ELSE (WeightedSum(inn, <<2, 4, 11, 3, 5, 9, 4, 6, 8>>, 9) % 11) % 10
                = DigitVal(inn[10])

validate_inn(inn0) ==
    LET inn == StripSeparators(inn0)
        coefficients == <<2, 4, 10, 3, 5, 9, 4, 6, 8>>
        coefficients1 == <<7, 2, 4, 10, 3, 5, 9, 4, 6, 8>>
        coefficients2 == <<3, 7, 2, 4, 10, 3, 5, 9, 4, 6, 8>>
    IN  IF ~IsDigitStr(inn) THEN FALSE
        ELSE IF Len(inn) \notin {10, 12} THEN FALSE
        ELSE IF Len(inn) = 10
             THEN (WeightedSum(inn, coefficients, 9) % 11) % 10 = DigitVal(inn[10])
        ELSE /\ (WeightedSum(inn, coefficients1, 10) % 11) % 10 = DigitVal(inn[11])
             /\ (WeightedSum(inn, coefficients2, 11) % 11) % 10 = DigitVal(inn[12])

validate_passport(passport0) ==
    LET passport == StripSeparators(passport0)
    IN  IsDigitStr(passport) /\ Len(passport) = 10

-----------------------------------------------------------------------------
(* RegexNER.extract_entities *)

\* match.group()
Group(s, m) == SubSeq(s, m.start + 1, m.end)

Entity(tag, feats, m) == [tag |-> tag, feats |-> feats, start |-> m.start, end |-> m.end]

\* the entities one finditer loop appends for the matches ms
RECURSIVE EntitiesOf(_, _, _)
EntitiesOf(pat, s, ms) ==
    IF ms = <<>> THEN <<>>
    ELSE LET m == Head(ms)
             g == Group(s, m)
             here ==
                CASE pat = "card" ->
                        IF luhn_algorithm(StripSeparators(g))
                        THEN <<Entity("CARD_NUMBER", "valid_card", m)>>
                        ELSE <<Entity("CARD_NUMBER", "invalid_card", m)>>
                  [] pat = "ogrnip" ->
                        IF validate_ogrnip(g)
                        THEN <<Entity("OGRNIP", "valid_ogrnip", m)>>
                        ELSE <<>>
                  [] pat = "ip" -> <<Entity("IP_ADDRESS", "valid_ip", m)>>
                  [] pat = "email" -> <<Entity("EMAIL", "valid_email", m)>>
                  [] pat = "birth_cert" -> <<Entity("BIRTH_CERT", "valid_birth_cert", m)>>
                  [] pat = "kladr" -> <<Entity("KLADR", "valid_kladr", m)>>
                  [] pat = "inn" ->
                        IF validate_inn(StripSeparators(g))
                        THEN <<Entity("INN", "valid_inn", m)>>
                        ELSE <<Entity("INN", "invalid_inn", m)>>
                  [] pat = "passport" ->
                        IF validate_passport(StripSeparators(g))
                        THEN <<Entity("PASSPORT", "valid_passport", m)>>
                        ELSE <<Entity("PASSPORT", "invalid_passport", m)>>
         IN  here \o EntitiesOf(pat, s, Tail(ms))

\* a faulty variant: a match that fails its checksum is dropped
ScanValidOnly(pat, s) ==
    SelectSeq(EntitiesOf(pat, s, FindIter(MatchEnds(pat, s), 0)),
              LAMBDA e : e.feats \notin {"invalid_card", "invalid_inn"})

\* one "for match in self.<pat>_pattern.finditer(text)" loop
Scan(pat, s) == EntitiesOf(pat, s, FindIter(MatchEnds(pat, s), 0))

\* the loops in the order of the code
Patterns ==
    <<"card", "ogrnip", "ip", "email", "birth_cert", "kladr", "inn", "passport">>

RECURSIVE ScanAll(_, _)
ScanAll(pats, s) ==
    IF pats = <<>> THEN <<>> ELSE Scan(Head(pats), s) \o ScanAll(Tail(pats), s)

extract_entities(s) == ScanAll(Patterns, s)

-----------------------------------------------------------------------------
(* PDAnonymizer: the source of randomness.  The random module is one        *)
(* generator shared by every call: it yields one variate per draw, here a   *)
(* point of the grid 0..9.  rnd = [b |-> block, k |-> draws made so far]    *)
(* is its state; a generator returns its text and the state it leaves.      *)

\* the streams considered repeat a block of at most RandBlock variates
RandBlocks == UNION { [1..n -> 0..9] : n \in 1..RandBlock }

\* the variates of the next n draws
Variates(rnd, n) == [i \in 1..n |-> rnd.b[((rnd.k + i - 1) % Len(rnd.b)) + 1]]

\* the state of the source after n more draws
After(rnd, n) == [b |-> rnd.b, k |-> rnd.k + n]

\* random.randint(a, b) for the variate u: a for the least, b for the greatest
randint(a, b, u) == a + ((u * (b - a)) \div 9)

\* random.choice(seq) for the variate u
choice(seq, u) == seq[1 + ((u * (Len(seq) - 1)) \div 9)]

\* ''.join(str(random.randint(0, 9)) for _ in range(n)) for the variates u
DigitsOf(u) == [i \in 1..Len(u) |-> DigitChar(randint(0, 9, u[i]))]

\* the next n random digits
RandDigits(rnd, n) == DigitsOf(Variates(rnd, n))

\* the failure text every generator returns, 26 characters: "c_N" the capital
\* letter, the rest lowercase, in two places a space
Sentinel ==
    <<"c_N", "c_e", "c_k", "c_o", "c_r", "c_r", "c_e", "c_k", "c_t", "c_n", "c_o",
      " ", "c_v", "c_v", "c_e", "c_d", "c_e", "c_n", "c_y",
      " ", "c_d", "c_a", "c_n", "c_n", "c_y", "c_e">>

\* not s.strip(): empty or whitespace only
IsBlank(s) == \A i \in 1..Len(s) : IsSpace(s[i])

\* a generator's return value: the text and the state of the random source
Ret(out, rnd) == [out |-> out, rnd |-> rnd]

\* return "<the failure text>", before any draw
Fail(rnd) == Ret(Sentinel, rnd)

\* re.sub(r'\D', '', s)
OnlyDecimals(s) == SelectSeq(s, IsDecimal)

\* re.sub(r'\s', '', s)
WithoutSpace(s) == SelectSeq(s, LAMBDA c : ~IsSpace(c))

-----------------------------------------------------------------------------
(* PDAnonymizer.anonymize_inn, anonymize_card, anonymize_ogrnip *)

\* a faulty variant: the reduction modulo 11 left out
_calc_inn_control_mod10(digits, weights) ==
    DigitChar(WeightedSum(digits, weights, Min(Len(digits), Len(weights))) % 10)

\* _calc_inn_control: zip stops at the shorter of digits and weights
_calc_inn_control(digits, weights) ==
    DigitChar((WeightedSum(digits, weights, Min(Len(digits), Len(weights))) % 11) % 10)

anonymize_inn(inn, rnd) ==
    IF ~IsDigitStr(inn) THEN Fail(rnd)
    ELSE IF Len(inn) = 10 THEN
        LET base == RandDigits(rnd, 9)
            control == _calc_inn_control(base, <<2, 4, 10, 3, 5, 9, 4, 6, 8>>)
        IN  Ret(base \o <<control>>, After(rnd, 9))
    ELSE IF Len(inn) = 12 THEN
        LET base == RandDigits(rnd, 10)
            c1 == _calc_inn_control(PySlice(base, 0, 10),
                                    <<7, 2, 4, 10, 3, 5, 9, 4, 6, 8>>)
            c2 == _calc_inn_control(PySlice(base, 0, 11) \o <<c1>>,
                                    <<3, 7, 2, 4, 10, 3, 5, 9, 4, 6, 8>>)
        IN  Ret(PySlice(base, 0, 10) \o <<c1>> \o <<c2>>, After(rnd, 10))
    ELSE Fail(rnd)

\* the loop of _luhn_checksum over reversed(digits): i counts from the right
RECURSIVE LuhnBodySum(_, _)
LuhnBodySum(digits, i) ==
    IF i >= Len(digits) THEN 0
    ELSE LET n == DigitVal(digits[Len(digits) - i])
             doubled == IF n * 2 > 9 THEN n * 2 - 9 ELSE n * 2
         IN  (IF i % 2 = 0 THEN doubled ELSE n) + LuhnBodySum(digits, i + 1)

_luhn_checksum(digits) == DigitChar((10 - (LuhnBodySum(digits, 0) % 10)) % 10)

\* the loop over card: the i-th str.isdigit character takes new_digits[i], any
\* other character is copied.  new_digits[i] past the end raises IndexError:
\* raised is then TRUE.
RECURSIVE CardFill(_, _, _)
CardFill(card, new_digits, i) ==
    IF card = <<>> THEN [raised |-> FALSE, out |-> <<>>]
    ELSE IF IsDigit(Head(card))
         THEN IF i >= Len(new_digits) THEN [raised |-> TRUE, out |-> <<>>]
              ELSE LET rest == CardFill(Tail(card), new_digits, i + 1)
                   IN  [raised |-> rest.raised, out |-> <<new_digits[i + 1]>> \o rest.out]
         ELSE LET rest == CardFill(Tail(card), new_digits, i)
              IN  [raised |-> rest.raised, out |-> <<Head(card)>> \o rest.out]

anonymize_card(card, rnd) ==
    LET digits == OnlyDecimals(card)
    IN  IF ~(CardMinDigits <= Len(digits) /\ Len(digits) <= CardMaxDigits)
        THEN Fail(rnd)
        ELSE LET body == RandDigits(rnd, Len(digits) - 1)
                 check == _luhn_checksum(body)
                 new_digits == body \o <<check>>
                 result == CardFill(card, new_digits, 0)
                 after == After(rnd, Len(digits) - 1)
             IN  IF result.raised THEN Ret(Sentinel, after) ELSE Ret(result.out, after)

\* a faulty variant: the control digit taken modulo 11, as validate_ogrnip
\* expects it
anonymize_ogrnip_mod11(ogrnip, rnd) ==
    IF ~IsDigitStr(ogrnip) \/ Len(ogrnip) # 15 THEN Fail(rnd)
    ELSE LET base == RandDigits(rnd, 14)
             control == DigitChar(IntMod(base, 11, 0) % 10)
         IN  Ret(base \o <<control>>, After(rnd, 14))

anonymize_ogrnip(ogrnip, rnd) ==
    IF ~IsDigitStr(ogrnip) \/ Len(ogrnip) # 15 THEN Fail(rnd)
    ELSE LET base == RandDigits(rnd, 14)
             control == DigitChar(IntMod(base, 13, 0) % 10)
         IN  Ret(base \o <<control>>, After(rnd, 14))

-----------------------------------------------------------------------------
(* PDAnonymizer: names.  pymorphy3 and Faker are outside the repository: the *)
(* analyser answers with any of the feature bags below, Faker (which draws  *)
(* from a generator of its own) with any name of its list.  anonymize_name, *)
(* anonymize_last_name and anonymize_email return the set of the texts they *)
(* can return.                                                             *)

MorphFeatures ==
    [gender : {"masc", "femn"}, number : {"sing"}, case : {"nomn", "gent"}]

\* no features handed over (None)
NoFeatures == [gender |-> "", number |-> "", case |-> ""]

first_name_male == {<<"c_A", "c_n">>}
first_name_female == {<<"c_V", "c_a">>}
last_name_male == {<<"c_B", "c_o", "c_v">>}
last_name_female == {<<"c_B", "c_o", "c_v", "c_a">>}
user_name == {<<"u">>, <<"u", "1">>}

ToLower(c) ==
    CASE c = "c_A" -> "c_a" [] c = "c_B" -> "c_b" [] c = "c_V" -> "c_v"
      [] c = "c_N" -> "c_n" [] OTHER -> c

ToUpper(c) ==
    CASE c = "c_a" -> "c_A" [] c = "c_b" -> "c_B" [] c = "c_v" -> "c_V"
      [] c = "c_n" -> "c_N" [] OTHER -> c

\* str.capitalize()
Capitalize(w) ==
    [i \in 1..Len(w) |-> IF i = 1 THEN ToUpper(w[i]) ELSE ToLower(w[i])]

\* _get_morph_features: the defaults for a blank word, else what the analyser says
_get_morph_features(word) ==
    IF IsBlank(word) THEN {[gender |-> "masc", number |-> "sing", case |-> "nomn"]}
    ELSE MorphFeatures

\* _inflect_word: the analyser's form of word for the target features, in
\* lowercase; here the genitive adds an ending and the nominative none
_inflect_word(word, target_features) ==
    IF IsBlank(word) THEN word
    ELSE IF target_features.case = "gent"
         THEN [i \in 1..Len(word) |-> ToLower(word[i])] \o <<"c_a">>
         ELSE [i \in 1..Len(word) |-> ToLower(word[i])]

\* re.search(r'[\d@#$%^&*()_+=\[\]{}|;:",.<>?/\\]', name)
HasDigitOrSpecial(name) ==
    \E i \in 1..Len(name) :
        IsDecimal(name[i]) \/ name[i] \in {"@", "#", "%", "_", "+", ".", ":", ","}

\* features or self._get_morph_features(name)
FeaturesFor(name, features) ==
    IF features = NoFeatures THEN _get_morph_features(name) ELSE {features}

anonymize_name(name, features) ==
    IF IsBlank(name) THEN {Sentinel}
    ELSE IF HasDigitOrSpecial(name) THEN {Sentinel}
    ELSE { Capitalize(_inflect_word(new_name, f)) :
             <<f, new_name>> \in
               { x \in FeaturesFor(name, features)
                       \X (first_name_male \cup first_name_female) :
                   x[2] \in (IF x[1].gender = "femn" THEN first_name_female
                                                     ELSE first_name_male) } }

anonymize_last_name(last_name, features) ==
    IF IsBlank(last_name) THEN {Sentinel}
    ELSE IF HasDigitOrSpecial(last_name) THEN {Sentinel}
    ELSE { Capitalize(_inflect_word(new_last_name, f)) :
             <<f, new_last_name>> \in
               { x \in FeaturesFor(last_name, features)
                       \X (last_name_male \cup last_name_female) :
                   x[2] \in (IF x[1].gender = "femn" THEN last_name_female
                                                     ELSE last_name_male) } }

-----------------------------------------------------------------------------
(* PDAnonymizer.anonymize_email, anonymize_passport, anonymize_ip,          *)
(* anonymize_birth_cert, anonymize_kladr                                   *)

\* a faulty variant: the offset of the last c, as rsplit would cut
IndexOfLast(s, c, p) ==
    IF \E i \in (p + 1)..Len(s) : s[i] = c
    THEN CHOOSE i \in p..(Len(s) - 1) :
            s[i + 1] = c /\ \A j \in (i + 2)..Len(s) : s[j] # c
    ELSE Len(s)

\* the 0-based offset of the first c in s at or after p, Len(s) when there is none
RECURSIVE IndexOf(_, _, _)
IndexOf(s, c, p) ==
    IF p >= Len(s) THEN Len(s)
    ELSE IF s[p + 1] = c THEN p ELSE IndexOf(s, c, p + 1)

anonymize_email(email) ==
    IF IsBlank(email) THEN {Sentinel}
    ELSE IF IndexOf(email, "@", 0) = Len(email) THEN {Sentinel}
    ELSE LET domain == PyFrom(email, IndexOf(email, "@", 0) + 1)   \* split('@', 1)
         IN  { new_local \o <<"@">> \o domain : new_local \in user_name }

\* a faulty variant: \s* at p, as in the pattern of the detector
ManySpacesEnd(s, p) == IF p >= 0 THEN RunEnd("space", s, p) ELSE p

\* \s? at p
OptSpaceEnd(s, p) == IF p >= 0 /\ IsSpace(At(s, p)) THEN p + 1 ELSE p

\* re.fullmatch(r'(\d{2})\s?(\d{2})\s?(\d{6})', passport)
PassportFullMatch(s) ==
    DigitsEnd(s, OptSpaceEnd(s, DigitsEnd(s, OptSpaceEnd(s, DigitsEnd(s, 0, 2)), 2)), 6)
        = Len(s)

anonymize_passport(passport, rnd) ==
    IF ~PassportFullMatch(passport) THEN Fail(rnd)
    ELSE LET series == RandDigits(rnd, 4)
             number == RandDigits(After(rnd, 4), 6)
         IN  Ret(PySlice(series, 0, 2) \o <<" ">> \o PyFrom(series, 2) \o <<" ">> \o number,
                 After(rnd, 10))

\* str(n) for 0 <= n <= 999
IntToStr(n) ==
    IF n < 10 THEN <<DigitChar(n)>>
    ELSE IF n < 100 THEN <<DigitChar(n \div 10), DigitChar(n % 10)>>
    ELSE <<DigitChar(n \div 100), DigitChar((n \div 10) % 10), DigitChar(n % 10)>>

\* the number of c in s
RECURSIVE CountOf(_, _)
CountOf(s, c) ==
    IF s = <<>> THEN 0 ELSE (IF Head(s) = c THEN 1 ELSE 0) + CountOf(Tail(s), c)

\* a faulty variant: the dots are counted where the parts are meant, and an
\* address of four parts is turned down
anonymize_ip_four_dots(ip, rnd) ==
    IF CountOf(ip, ".") # 4 THEN Fail(rnd)
    ELSE LET u == Variates(rnd, 4)
         IN  Ret(IntToStr(randint(1, 254, u[1])) \o <<".">>
                 \o IntToStr(randint(1, 254, u[2])) \o <<".">>
                 \o IntToStr(randint(1, 254, u[3])) \o <<".">>
                 \o IntToStr(randint(1, 254, u[4])), After(rnd, 4))

anonymize_ip(ip, rnd) ==
    IF CountOf(ip, ".") + 1 # 4 THEN Fail(rnd)         \* len(ip.split('.')) != 4
    ELSE LET u == Variates(rnd, 4)
         IN  Ret(IntToStr(randint(1, 254, u[1])) \o <<".">>
                 \o IntToStr(randint(1, 254, u[2])) \o <<".">>
                 \o IntToStr(randint(1, 254, u[3])) \o <<".">>
                 \o IntToStr(randint(1, 254, u[4])), After(rnd, 4))

\* _int_to_roman, from the i-th entry of val and syb on
RECURSIVE _int_to_roman(_, _)
_int_to_roman(num, i) ==
    LET val == <<1000, 900, 500, 400, 100, 90, 50, 40, 10, 9, 5, 4, 1>>
        syb == << <<"M">>, <<"C", "M">>, <<"D">>, <<"C", "D">>, <<"C">>, <<"X", "C">>,
                  <<"L">>, <<"X", "L">>, <<"X">>, <<"I", "X">>, <<"V">>, <<"I", "V">>,
                  <<"I">> >>
    IN  IF num <= 0 THEN <<>>
        ELSE IF num >= val[i] THEN syb[i] \o _int_to_roman(num - val[i], i)
        ELSE _int_to_roman(num, i + 1)

\* re.fullmatch(r'([IVXLCDM]+)-([cyrillic capital]{2})\s*<numero>(\d{6})', cert,
\* re.IGNORECASE)
BirthCertFullMatch(s) ==
    LET r == RunEnd("roman", s, 0)
        n == RunEnd("space", s, r + 3)
    IN  /\ r > 0 /\ At(s, r) = "-"
        /\ InClass("cyr", At(s, r + 1)) /\ InClass("cyr", At(s, r + 2))
        /\ At(s, n) = "No" /\ DigitsEnd(s, n + 1, 6) = Len(s)

\* the capital letters random.choice draws from, as far as the model's
\* alphabet has them
CertLetters == <<"c_A", "c_B", "c_V", "c_N">>

anonymize_birth_cert(cert, rnd) ==
    IF ~BirthCertFullMatch(cert) THEN Fail(rnd)
    ELSE LET u == Variates(rnd, 9)
             roman_numeral == _int_to_roman(randint(1, 20, u[1]), 1)
             letters == <<choice(CertLetters, u[2]), choice(CertLetters, u[3])>>
             number == DigitsOf(SubSeq(u, 4, 9))
         IN  Ret(roman_numeral \o <<"-">> \o letters \o <<" ", "No">> \o number,
                 After(rnd, 9))

\* a faulty variant: every space already put in moves the next one a place on
RECURSIVE KladrSpacesDrift(_, _, _)
KladrSpacesDrift(kladr, result, i) ==
    IF i >= Len(kladr) THEN result
    ELSE IF kladr[i + 1] = " " /\ i < Len(result)
         THEN LET at == i + Len(SelectSeq(result, LAMBDA c : c = " "))
              IN  KladrSpacesDrift(kladr,
                                   PySlice(result, 0, at) \o <<" ">> \o PyFrom(result, at),
                                   i + 1)
         ELSE KladrSpacesDrift(kladr, result, i + 1)

\* a faulty variant: the test i < len(result) left out
RECURSIVE KladrSpacesUnguarded(_, _, _)
KladrSpacesUnguarded(kladr, result, i) ==
    IF i >= Len(kladr) THEN result
    ELSE IF kladr[i + 1] = " "
         THEN KladrSpacesUnguarded(kladr,
                                   PySlice(result, 0, i) \o <<" ">> \o PyFrom(result, i),
                                   i + 1)
         ELSE KladrSpacesUnguarded(kladr, result, i + 1)

\* the loop over enumerate(kladr) from offset i on: a space of kladr at an
\* offset inside result is inserted into result at that offset
RECURSIVE KladrSpaces(_, _, _)
KladrSpaces(kladr, result, i) ==
    IF i >= Len(kladr) THEN result
    ELSE IF kladr[i + 1] = " " /\ i < Len(result)
         THEN KladrSpaces(kladr, PySlice(result, 0, i) \o <<" ">> \o PyFrom(result, i), i + 1)
         ELSE KladrSpaces(kladr, result, i + 1)

anonymize_kladr(kladr, rnd) ==
    LET digits == WithoutSpace(kladr)
    IN  IF ~IsDigitStr(digits) \/ Len(digits) < 9 THEN Fail(rnd)
        ELSE LET new_digits == RandDigits(rnd, Len(digits))
             IN  Ret(KladrSpaces(kladr, new_digits, 0), After(rnd, Len(digits)))

-----------------------------------------------------------------------------
(* NERAnonymizer *)

\* _get_replacement: the returns of the generator the tag selects
_get_replacement(tag, original_text, feats, r) ==
    IF tag = "NAME" THEN { Ret(o, r) : o \in anonymize_name(original_text, NoFeatures) }
    ELSE IF tag = "SURNAME"
         THEN { Ret(o, r) : o \in anonymize_last_name(original_text, NoFeatures) }
    ELSE IF tag = "EMAIL" THEN { Ret(o, r) : o \in anonymize_email(original_text) }
    ELSE IF tag = "CARD_NUMBER" THEN {anonymize_card(original_text, r)}
    ELSE IF tag = "OGRNIP" THEN {anonymize_ogrnip(original_text, r)}
    ELSE IF tag = "IP_ADDRESS" THEN {anonymize_ip(original_text, r)}
    ELSE IF tag = "BIRTH_CERT" THEN {anonymize_birth_cert(original_text, r)}
    ELSE IF tag = "KLADR" THEN {anonymize_kladr(original_text, r)}
    ELSE {Ret(Repeat("#", Len(original_text)), r)}

\* a faulty variant: the mask is a single '#' whatever the length of the span
ReplacementOneHash(t, entity, m, r) ==
    IF m = "mask" THEN {Ret(<<"#">>, r)}
    ELSE _get_replacement(entity.tag, PySlice(t, entity.start, entity.end),
                          entity.feats, r)

\* a faulty variant: the mask is made of the digit '0'
ReplacementZeros(t, entity, m, r) ==
    IF m = "mask" THEN {Ret(Repeat("0", entity.end - entity.start), r)}
    ELSE _get_replacement(entity.tag, PySlice(t, entity.start, entity.end),
                          entity.feats, r)

\* the replacement of one entity under the mode m
ReplacementFor(t, entity, m, r) ==
    LET original_text == PySlice(t, entity.start, entity.end)
    IN  IF m = "mask" THEN {Ret(Repeat("#", Len(original_text)), r)}
        ELSE _get_replacement(entity.tag, original_text, entity.feats, r)

\* the loop "for entity in all_entities": every list of replacements it can
\* build, with the state the random source is left in
RECURSIVE BuildReplacements(_, _, _, _)
BuildReplacements(t, entities, m, r) ==
    IF entities = <<>> THEN {[repls |-> <<>>, rnd |-> r]}
    ELSE LET e == Head(entities)
         IN  UNION { { [repls |-> <<[start |-> e.start, end |-> e.end, repl |-> c.out]>>
                                  \o rest.repls,
                        rnd |-> rest.rnd] :
                       rest \in BuildReplacements(t, Tail(entities), m, c.rnd) } :
                     c \in ReplacementFor(t, e, m, r) }

\* a faulty variant: the concatenation is left unsorted
ConcatEntities(names, found) == names \o found

\* all_entities = natasha_entities + regex_entities; all_entities.sort(key=start)
MergeEntities(names, found) == SortFrom(<<>>, names \o found, FALSE)

-----------------------------------------------------------------------------
(* The texts given to the anonymizer, and what NatashaNER makes of them *)

\* a word, a valid 10-digit INN, an e-mail address, an IP address, a card
\* number that passes Luhn, an OGRNIP valid modulo 11, a KLADR code and a
\* birth certificate number
Fragments ==
    { <<"c_A", "c_b">>,
      <<"7", "8", "0", "1", "9", "2", "0", "5", "8", "8">>,
      <<"a", "@", "b", ".", "c", "c">>,
      <<"1", ".", "2", ".", "3", ".", "4">>,
      <<"1", "5", "5", "8", " ", "5", "7", "0", "1", " ", "8", "5", "2", "8", " ",
        "1", "2", "8", "0">>,
      <<"2", "5", "5", "5", "4", "7", "8", "5", "3", "4", "6", "0", "7", "3", "5">>,
      <<"7", "7", " ", "0", "1", " ", "0", "0", "1", " ", "3", "6">>,
      <<"X", "-", "c_A", "c_B", " ", "No", "1", "2", "3", "4", "5", "6">> }

\* the texts of n fragments, separated by one space
RECURSIVE TextsOf(_)
TextsOf(n) ==
    IF n = 1 THEN Fragments
    ELSE { t \o <<" ">> \o f : t \in TextsOf(n - 1), f \in Fragments }

Texts == UNION { TextsOf(n) : n \in 1..MaxFragments }

\* the tokens NatashaNER can report as part of a person's name: the runs of
\* Cyrillic letters, from offset p on
RECURSIVE NameTokens(_, _)
NameTokens(t, p) ==
    IF p >= Len(t) THEN <<>>
    ELSE IF InClass("cyr", t[p + 1])
         THEN <<[start |-> p, end |-> RunEnd("cyr", t, p)]>>
              \o NameTokens(t, RunEnd("cyr", t, p))
         ELSE NameTokens(t, p + 1)

\* token.feats, the feature bags a token may carry
TokenFeats ==
    { [gender |-> "masc", number |-> "sing", case |-> "nomn"],
      [gender |-> "femn", number |-> "sing", case |-> "gent"] }

\* extract_names(text): [tag, feats, start, end] for some of the tokens, in
\* the order of the text.  toks are the tokens not yet looked at, n the number
\* of entries still allowed.
RECURSIVE NamesFrom(_, _)
NamesFrom(toks, n) ==
    IF toks = <<>> \/ n = 0 THEN {<<>>}
    ELSE NamesFrom(Tail(toks), n)
         \cup { <<Entity(tag, feats, Head(toks))>> \o rest :
                  tag \in {"NAME", "SURNAME"}, feats \in TokenFeats,
                  rest \in NamesFrom(Tail(toks), n - 1) }

extract_names(t) == NamesFrom(NameTokens(t, 0), MaxNames)

-----------------------------------------------------------------------------
(* The anonymizer: one call of anonymize or extract_and_anonymize on an     *)
(* anonymizer constructed with the mode of the initial state               *)

Modes == {"mask", "replace"}

Init ==
    /\ pc = "ready"
    /\ op = "none"
    /\ mode \in Modes
    /\ text \in Texts
    /\ name_features = NoFeatures
    /\ natasha_entities \in extract_names(text)
    /\ regex_entities = <<>>
    /\ all_entities = <<>>
    /\ replacements = <<>>
    /\ result_text = <<>>
    /\ random_state = <<>>

\* the streams of the random module that make a difference to a call: in
\* mask mode no generator is called and nothing is drawn
BlocksFor(m) == IF m = "mask" THEN {<<0>>} ELSE RandBlocks

\* the body of anonymize; random_state becomes the variates drawn
AnonymizeBody(name) ==
    /\ \E found \in {extract_entities(text)} :
         \E merged \in {MergeEntities(natasha_entities, found)} :
           \E b \in BlocksFor(mode) :
             \E r \in BuildReplacements(text, merged, mode, [b |-> b, k |-> 0]) :
               /\ regex_entities' = found
               /\ all_entities' = merged
               /\ replacements' = r.repls
               /\ result_text' = Splice(text, r.repls)
               /\ random_state' = Variates([b |-> b, k |-> 0], r.rnd.k)
    /\ op' = name
    /\ pc' = "done"
    /\ UNCHANGED <<mode, text, name_features, natasha_entities>>

\* NERAnonymizer.anonymize(text)
Anonymize == pc = "ready" /\ AnonymizeBody("anonymize")

\* NERAnonymizer.extract_and_anonymize(text): the same entities, merged and
\* sorted the same way, are returned beside the anonymized text
ExtractAndAnonymize == pc = "ready" /\ AnonymizeBody("extract_and_anonymize")

Next == Anonymize \/ ExtractAndAnonymize

Spec == Init /\ [][Next]_vars

\* the anonymizer constructed with mode="mask"
InitMask == Init /\ mode = "mask"

SpecMask == InitMask /\ [][Next]_vars

\* texts in which one pattern matches inside the match of another: an IP
\* address as the local part of an e-mail address
OverlapTexts ==
    { <<"1", ".", "2", ".", "3", ".", "4", "@", "b", ".", "c", "c">>,
      <<"x", " ", "1", ".", "2", ".", "3", ".", "4", "@", "b", ".", "c", "c", " ", "y">> }

\* the anonymizer constructed with mode="replace", given one of these texts
InitOverlap ==
    /\ pc = "ready"
    /\ op = "none"
    /\ mode = "replace"
    /\ text \in OverlapTexts
    /\ name_features = NoFeatures
    /\ natasha_entities = <<>>
    /\ regex_entities = <<>>
    /\ all_entities = <<>>
    /\ replacements = <<>>
    /\ result_text = <<>>
    /\ random_state = <<>>

SpecOverlap == InitOverlap /\ [][Next]_vars

\* texts for the pattern detector alone: every fragment by itself, the texts
\* with one match inside another, an IP address followed by a KLADR code, and
\* a birth certificate number followed by an INN, where the 16 digits on both
\* sides of the space are reported as a card number that fails Luhn
PatternTexts ==
    Fragments \cup OverlapTexts
    \cup { <<"1", ".", "2", ".", "3", ".", "4", " ",
             "7", "7", " ", "0", "1", " ", "0", "0", "1", " ", "3", "6">>,
           <<"X", "-", "c_A", "c_B", " ", "No", "1", "2", "3", "4", "5", "6", " ",
             "7", "8", "0", "1", "9", "2", "0", "5", "8", "8">> }

\* the anonymizer constructed with mode="replace", given one of these texts in
\* which NatashaNER finds no name
InitPattern ==
    /\ pc = "ready"
    /\ op = "none"
    /\ mode = "replace"
    /\ text \in PatternTexts
    /\ name_features = NoFeatures
    /\ natasha_entities = <<>>
    /\ regex_entities = <<>>
    /\ all_entities = <<>>
    /\ replacements = <<>>
    /\ result_text = <<>>
    /\ random_state = <<>>

SpecPattern == InitPattern /\ [][Next]_vars

\* RegexNER.extract_entities called once more, on the text anonymize returned
Redetect ==
    /\ pc = "done"
    /\ \E found \in {extract_entities(result_text)} : regex_entities' = found
    /\ op' = "extract_entities"
    /\ pc' = "redetected"
    /\ UNCHANGED <<mode, text, name_features, natasha_entities, all_entities,
                   replacements, result_text, random_state>>

NextRemask == Anonymize \/ ExtractAndAnonymize \/ Redetect

\* the texts masked and scanned again: the texts of the fragments, and a word
\* with a 10-digit INN right behind it, which no pattern matches as long as
\* the word stands before it
RemaskTexts ==
    Texts \cup { <<"c_A", "c_b", "7", "8", "0", "1", "9", "2", "0", "5", "8", "8">> }

\* the anonymizer constructed with mode="mask", called on one of these texts
InitRemask ==
    /\ pc = "ready"
    /\ op = "none"
    /\ mode = "mask"
    /\ text \in RemaskTexts
    /\ name_features = NoFeatures
    /\ natasha_entities \in extract_names(text)
    /\ regex_entities = <<>>
    /\ all_entities = <<>>
    /\ replacements = <<>>
    /\ result_text = <<>>
    /\ random_state = <<>>

\* an anonymizer in mask mode and the detector run over what it returns
SpecRemask == InitRemask /\ [][NextRemask]_vars

\* what NERAnonymizer(mode) can be called with: the two modes, and two values
\* that are no mode
ModeArgs == Modes \cup {"", "hash"}

\* NERAnonymizer(mode) has been called and __init__ has not yet run: mode is
\* the argument
InitLife ==
    /\ pc = "new"
    /\ op = "none"
    /\ mode \in ModeArgs
    /\ text = <<>>
    /\ name_features = NoFeatures
    /\ natasha_entities = <<>>
    /\ regex_entities = <<>>
    /\ all_entities = <<>>
    /\ replacements = <<>>
    /\ result_text = <<>>
    /\ random_state = <<>>

\* a faulty variant: the mode is stored unchecked
ConstructUnchecked ==
    /\ pc = "new"
    /\ pc' = "idle"
    /\ op' = "__init__"
    /\ UNCHANGED <<mode, text, name_features, natasha_entities, regex_entities,
                   all_entities, replacements, result_text, random_state>>

\* __init__: ValueError and no anonymizer for a value that is no mode, else
\* self.mode = mode
Construct ==
    /\ pc = "new"
    /\ pc' = IF mode \notin Modes THEN "raised" ELSE "idle"
    /\ op' = "__init__"
    /\ UNCHANGED <<mode, text, name_features, natasha_entities, regex_entities,
                   all_entities, replacements, result_text, random_state>>

\* a call of anonymize or extract_and_anonymize begins: its text argument
\* and what NatashaNER will find in it
Accept ==
    /\ pc = "idle"
    /\ \E t \in Fragments :
         \E names \in extract_names(t) :
            /\ text' = t
            /\ natasha_entities' = names
    /\ pc' = "ready"
    /\ UNCHANGED <<op, mode, name_features, regex_entities, all_entities,
                   replacements, result_text, random_state>>

\* the call returns: its locals are gone, the anonymizer stays
Return ==
    /\ pc = "done"
    /\ pc' = "idle"
    /\ text' = <<>>
    /\ natasha_entities' = <<>>
    /\ regex_entities' = <<>>
    /\ all_entities' = <<>>
    /\ replacements' = <<>>
    /\ result_text' = <<>>
    /\ random_state' = <<>>
    /\ UNCHANGED <<op, mode, name_features>>

NextLife == Construct \/ Accept \/ Anonymize \/ ExtractAndAnonymize \/ Return

\* an anonymizer from its construction on, through any number of calls
SpecLife == InitLife /\ [][NextLife]_vars

-----------------------------------------------------------------------------
(* The splice loop on its own: lines 57-61 of anonymize applied to a text   *)
(* and a list of (start, end, replacement) instructions                     *)

\* the letters of the texts, all different, so that every character of a
\* result tells where it came from
SpliceLetters == <<"a", "b", "c", "d", "e", "f", "g", "h">>
\* the characters of the replacements
ReplLetters == <<"X", "Y", "Z", "W", "V", "U">>

SpliceTexts == { SubSeq(SpliceLetters, 1, n) : n \in 0..MaxTextLen }

\* the instructions for the text t: a non-empty span of t, as every match of a
\* pattern and every token is, and a replacement of any length up to MaxReplLen
Instructions(t) ==
    { ins \in [start : 0..Len(t), end : 0..Len(t),
               repl : { SubSeq(ReplLetters, 1, n) : n \in 0..MaxReplLen }] :
        ins.start < ins.end }

\* the lists of n instructions, in any order
InstructionLists(t, n) == [1..n -> Instructions(t)]

\* the list with the replacement of its k-th instruction written in the
\* letters from the k-th on, so that no two replacements begin alike
Lettered(instrs) ==
    [k \in 1..Len(instrs) |->
        [start |-> instrs[k].start, end |-> instrs[k].end,
         repl |-> SubSeq(ReplLetters, k, k + Len(instrs[k].repl) - 1)]]

InitSplice ==
    /\ pc = "ready"
    /\ op = "none"
    /\ mode = "replace"
    /\ text \in SpliceTexts
    /\ name_features = NoFeatures
    /\ natasha_entities = <<>>
    /\ regex_entities = <<>>
    /\ all_entities = <<>>
    /\ \E n \in 0..MaxInstr :
         \E instrs \in InstructionLists(text, n) : replacements = Lettered(instrs)
    /\ result_text = <<>>
    /\ random_state = <<>>

\* result_text = text; for ... in sorted(replacements, ...): result_text = ...
ApplyReplacements ==
    /\ pc = "ready"
    /\ result_text' = Splice(text, replacements)
    /\ op' = "splice"
    /\ pc' = "done"
    /\ UNCHANGED <<mode, text, name_features, natasha_entities, regex_entities,
                   all_entities, replacements, random_state>>

NextSplice == ApplyReplacements

SpecSplice == InitSplice /\ [][NextSplice]_vars

\* 0 <= start <= end <= len(t) for every span of the list
InBounds(t, spans) ==
    \A i \in 1..Len(spans) :
        0 <= spans[i].start /\ spans[i].start <= spans[i].end /\ spans[i].end <= Len(t)

\* no two spans of the list share a position
NonOverlapping(spans) ==
    \A i, j \in 1..Len(spans) :
        i # j => (spans[i].end <= spans[j].start \/ spans[j].end <= spans[i].start)

\* the simultaneous substitution, read off the original text from offset p on:
\* at the start of a span its replacement and on behind the span, elsewhere the
\* original character
RECURSIVE Simultaneous(_, _, _)
Simultaneous(t, instrs, p) ==
    IF p >= Len(t) THEN <<>>
    ELSE IF \E i \in 1..Len(instrs) : instrs[i].start = p
         THEN LET i == CHOOSE k \in 1..Len(instrs) : instrs[k].start = p
              IN  instrs[i].repl \o Simultaneous(t, instrs, instrs[i].end)
         ELSE <<t[p + 1]>> \o Simultaneous(t, instrs, p + 1)

\* C1: for in-bounds, pairwise non-overlapping instructions the splice loop
\* (descending order of start, text[:start] + replacement + text[end:]) returns
\* the simultaneous substitution, whatever the lengths of the replacements
C1_SpliceIsSimultaneous ==
    (pc = "done" /\ op = "splice" /\ InBounds(text, replacements)
     /\ NonOverlapping(replacements))
        => result_text = Simultaneous(text, replacements, 0)

\* two disjoint spans given in ascending order, one replaced by a shorter and
\* one by a longer text: "abcde" with (1,2,""),(3,4,"YZ") gives "acYZe"
C1_Witness ==
    /\ pc = "done" /\ op = "splice"
    /\ text = <<"a", "b", "c", "d", "e">>
    /\ replacements = << [start |-> 1, end |-> 2, repl |-> <<>>],
                         [start |-> 3, end |-> 4, repl |-> <<"Y", "Z">>] >>
    /\ result_text = <<"a", "c", "Y", "Z", "e">>

\* the same slicing steps on the same offsets, in ascending order of start
AscendingResult(t, instrs) == ApplyAll(t, SortedAscByStart(instrs))

\* every instruction with another one behind it has a replacement as long as
\* its span
OnlyLastChangesLength(instrs) ==
    \A i, j \in 1..Len(instrs) :
        instrs[i].start < instrs[j].start
            => Len(instrs[i].repl) = instrs[i].end - instrs[i].start

\* C17 as stated: (1,2,"X"),(3,4,"Y") applied to "abcdef" in ascending order
\* of start gives a result other than the "aXcYef" of the descending order
C17_AscendingDiffersOnExample ==
    (pc = "done" /\ op = "splice"
     /\ text = <<"a", "b", "c", "d", "e", "f">>
     /\ replacements = << [start |-> 1, end |-> 2, repl |-> <<"X">>],
                          [start |-> 3, end |-> 4, repl |-> <<"Y">>] >>)
        => /\ result_text = <<"a", "X", "c", "Y", "e", "f">>
           /\ AscendingResult(text, replacements) # result_text

\* C17, amended: for in-bounds, pairwise non-overlapping instructions on a
\* text of pairwise different characters, different from those of the
\* replacements, the ascending order gives the result of the descending order
\* exactly when no instruction but the last changes the length of the text: it
\* gives the same "aXcYef" for (1,2,"X"),(3,4,"Y"), and another result as soon
\* as a replacement before the last is shorter or longer than its span
C17_AscendingDiffersIffLengthChanges ==
    (pc = "done" /\ op = "splice" /\ InBounds(text, replacements)
     /\ NonOverlapping(replacements))
        => (AscendingResult(text, replacements) = result_text
              <=> OnlyLastChangesLength(replacements))

\* "abcdef" with (1,2,"XY"),(3,4,"Y"): "aXYcYef" in descending order, and
\* "aXYYdef" in ascending order
C17_Witness ==
    /\ pc = "done" /\ op = "splice"
    /\ text = <<"a", "b", "c", "d", "e", "f">>
    /\ replacements = << [start |-> 1, end |-> 2, repl |-> <<"X", "Y">>],
                         [start |-> 3, end |-> 4, repl |-> <<"Y">>] >>
    /\ result_text = <<"a", "X", "Y", "c", "Y", "e", "f">>
    /\ AscendingResult(text, replacements) = <<"a", "X", "Y", "Y", "d", "e", "f">>

-----------------------------------------------------------------------------
(* NERAnonymizer._get_replacement called on its own, as a detector that     *)
(* reports further tags would have anonymize call it                        *)

\* the tags the detectors report and two tags they do not
DispatchTags ==
    {"NAME", "SURNAME", "EMAIL", "CARD_NUMBER", "OGRNIP", "IP_ADDRESS", "BIRTH_CERT",
     "KLADR", "INN", "PASSPORT"} \cup {"PHONE", "ORG"}

\* the entity is all_entities[1], text its original_text
InitDispatch ==
    /\ pc = "ready"
    /\ op = "none"
    /\ mode = "replace"
    /\ text \in Fragments
    /\ name_features = NoFeatures
    /\ natasha_entities = <<>>
    /\ regex_entities = <<>>
    /\ all_entities \in { <<Entity(tag, feats, [start |-> 0, end |-> Len(text)])>> :
                             tag \in DispatchTags, feats \in TokenFeats }
    /\ replacements = <<>>
    /\ result_text = <<>>
    /\ random_state = <<>>

GetReplacement ==
    /\ pc = "ready"
    /\ \E b \in RandBlocks :
         \E ret \in _get_replacement(all_entities[1].tag, text, all_entities[1].feats,
                                     [b |-> b, k |-> 0]) :
            /\ result_text' = ret.out
            /\ random_state' = Variates([b |-> b, k |-> 0], ret.rnd.k)
    /\ op' = "_get_replacement"
    /\ pc' = "done"
    /\ UNCHANGED <<mode, text, name_features, natasha_entities, regex_entities,
                   all_entities, replacements>>

NextDispatch == GetReplacement

SpecDispatch == InitDispatch /\ [][NextDispatch]_vars

-----------------------------------------------------------------------------
(* Properties of anonymize and extract_and_anonymize *)

\* the offset p lies inside one of the spans
Covered(spans, p) ==
    \E i \in 1..Len(spans) : spans[i].start <= p /\ p < spans[i].end

\* C2: in mask mode, for in-bounds and pairwise non-overlapping spans, the text
\* returned has the length of the input, '#' at every offset inside a span
\* (digits and separators alike) and the original character everywhere else
C2_MaskKeepsLengthAndPositions ==
    (pc = "done" /\ op \in {"anonymize", "extract_and_anonymize"} /\ mode = "mask"
     /\ InBounds(text, all_entities) /\ NonOverlapping(all_entities))
        => /\ Len(result_text) = Len(text)
           /\ \A p \in 1..Len(text) :
                result_text[p] = IF Covered(all_entities, p - 1) THEN "#" ELSE text[p]

\* the 19 characters of "1558 5701 8528 1280" and a name behind it, both masked
C2_Witness ==
    /\ pc = "done" /\ op = "anonymize" /\ mode = "mask"
    /\ Len(all_entities) = 2 /\ NonOverlapping(all_entities)
    /\ all_entities[1].tag = "CARD_NUMBER" /\ all_entities[2].tag = "NAME"
    /\ text = <<"1", "5", "5", "8", " ", "5", "7", "0", "1", " ", "8", "5", "2", "8",
                " ", "1", "2", "8", "0", " ", "c_A", "c_b">>
    /\ result_text = Repeat("#", 19) \o <<" ">> \o Repeat("#", 2)

\* C23: in mask mode, for in-bounds spans that may overlap, lie inside one
\* another or coincide, the text returned has the length of the input, '#' at
\* the offsets some span covers and the original character at the others
C23_MaskIsSafeUnderOverlap ==
    (pc = "done" /\ mode = "mask" /\ InBounds(text, all_entities))
        => /\ Len(result_text) = Len(text)
           /\ \A p \in 0..(Len(text) - 1) :
                /\ Covered(all_entities, p) => result_text[p + 1] = "#"
                /\ ~Covered(all_entities, p) => result_text[p + 1] = text[p + 1]

\* a name found inside a birth certificate number, the INN that is also
\* reported as a passport number, and a card number that starts inside the
\* certificate and ends with the INN: all 23 characters are masked
C23_Witness ==
    /\ pc = "done" /\ mode = "mask"
    /\ text = <<"X", "-", "c_A", "c_B", " ", "No", "1", "2", "3", "4", "5", "6", " ",
                "7", "8", "0", "1", "9", "2", "0", "5", "8", "8">>
    /\ \E i, j \in 1..Len(all_entities) :
         /\ all_entities[i].start < all_entities[j].start
         /\ all_entities[j].end < all_entities[i].end
    /\ \E i, j \in 1..Len(all_entities) :
         /\ i # j
         /\ all_entities[i].start = all_entities[j].start
         /\ all_entities[i].end = all_entities[j].end
    /\ \E i, j \in 1..Len(all_entities) :
         /\ all_entities[i].start < all_entities[j].start
         /\ all_entities[j].start < all_entities[i].end
         /\ all_entities[i].end < all_entities[j].end
    /\ result_text = Repeat("#", 23)

\* the end of the region that starts at offset p: the spans that start in
\* p..e-1 are taken in until none of them ends behind e
RECURSIVE RegionEnd(_, _, _)
RegionEnd(spans, p, e) ==
    LET ends == { spans[i].end :
                    i \in { k \in 1..Len(spans) :
                              p <= spans[k].start /\ spans[k].start < e } } \cup {e}
        m == CHOOSE x \in ends : \A y \in ends : y <= x
    IN  IF m = e THEN e ELSE RegionEnd(spans, p, m)

\* the texts that keep the frame: the characters of t outside every span, in
\* order, and for every region of spans the replacement of one span of it
RECURSIVE Framed(_, _, _)
Framed(t, repls, p) ==
    IF p >= Len(t) THEN {<<>>}
    ELSE IF \E i \in 1..Len(repls) : repls[i].start = p
         THEN LET e == RegionEnd(repls, p, p + 1)
              IN  { repls[i].repl \o rest :
                      i \in { k \in 1..Len(repls) :
                                p <= repls[k].start /\ repls[k].end <= e },
                      rest \in Framed(t, repls, e) }
         ELSE { <<t[p + 1]>> \o rest : rest \in Framed(t, repls, p + 1) }

\* C24: in replace mode, whatever spans the detector reports, the text
\* returned is the original text with every region of spans (one span, or
\* spans that overlap) exchanged for one generator output, and every character
\* outside the spans unchanged and in its order
C24_ReplaceKeepsFrameUnderOverlap ==
    (pc = "done" /\ mode = "replace"
     /\ op \in {"anonymize", "extract_and_anonymize"})
        => result_text \in Framed(text, replacements, 0)

\* C12: the detector run over the text returned in mask mode reports no entity
\* whose span holds a masked offset: no pattern matches a text with a '#' in it
C12_NoEntityOverMaskedText ==
    (pc = "redetected" /\ mode = "mask")
        => \A i \in 1..Len(regex_entities) :
             \A p \in regex_entities[i].start .. regex_entities[i].end - 1 :
                /\ ~Covered(all_entities, p)
                /\ result_text[p + 1] # "#"

\* the detector has run over a text in which the word was masked: it reports
\* the INN behind the masked word, and nothing over the mask
C12_Witness ==
    /\ pc = "redetected" /\ mode = "mask"
    /\ Len(all_entities) = 1 /\ all_entities[1].tag = "NAME"
    /\ result_text = <<"#", "#", "7", "8", "0", "1", "9", "2", "0", "5", "8", "8">>
    /\ Len(regex_entities) = 2
    /\ regex_entities[1].tag = "INN" /\ regex_entities[1].start = 2

\* the closed enumeration of tags
EnumeratedTags ==
    {"NAME", "SURNAME", "EMAIL", "CARD_NUMBER", "OGRNIP", "IP_ADDRESS", "BIRTH_CERT",
     "KLADR", "INN", "PASSPORT"}

\* C13: in replace mode an entity whose tag is outside the enumeration does
\* not fail: its replacement is a run of '#' as long as its text, as in mask
\* mode
C13_UnknownTagIsMasked ==
    (pc = "done" /\ op = "_get_replacement"
     /\ all_entities[1].tag \notin EnumeratedTags)
        => /\ Len(result_text) = Len(text)
           /\ \A i \in 1..Len(result_text) : result_text[i] = "#"

\* a card number of 19 characters reported with the tag PHONE
C13_Witness ==
    /\ pc = "done" /\ op = "_get_replacement"
    /\ all_entities[1].tag = "PHONE"
    /\ Len(text) = 19
    /\ result_text = [i \in 1..19 |-> "#"]

\* the replacement of the i-th entity is a run of '#' as long as its span
MaskedAt(i) ==
    replacements[i].repl
        = [k \in 1..(all_entities[i].end - all_entities[i].start) |-> "#"]

C22_NameFeaturesAreHandedOver ==
    (pc = "done" /\ mode = "replace")
        => \A i \in 1..Len(all_entities) :
             LET e == all_entities[i]
                 original_text == SubSeq(text, e.start + 1, e.end)
             IN  /\ e.tag = "NAME"
                       => replacements[i].repl \in anonymize_name(original_text, e.feats)
                 /\ e.tag = "SURNAME"
                       => replacements[i].repl
                             \in anonymize_last_name(original_text, e.feats)

\* C3: in replace mode the replacement of an entity with one of the ten
\* enumerated tags comes from the generator of its tag: a run of '#' stands
\* only for an entity whose tag is outside the enumeration
C3_EnumeratedTagsUseGenerators ==
    (pc = "done" /\ mode = "replace")
        => \A i \in 1..Len(all_entities) :
             all_entities[i].tag \in EnumeratedTags
                => replacements[i].repl #
                     Repeat("#", all_entities[i].end - all_entities[i].start)

\* C7: the merged list is a permutation of the name spans followed by the
\* pattern spans, ascending by start, and entities with equal start keep their
\* arrival order
C7_MergeIsStableSort ==
    pc = "done" =>
        LET arrival == natasha_entities \o regex_entities
        IN  /\ Len(all_entities) = Len(arrival)
            /\ \A i \in 1..(Len(all_entities) - 1) :
                 all_entities[i].start <= all_entities[i + 1].start
            /\ \A k \in 1..Len(arrival) :
                 SelectSeq(all_entities, LAMBDA e : e.start = arrival[k].start)
                    = SelectSeq(arrival, LAMBDA e : e.start = arrival[k].start)

\* a name span that arrives first and starts behind two pattern spans of equal
\* start
C7_Witness ==
    /\ pc = "done"
    /\ Len(natasha_entities) = 1 /\ Len(regex_entities) = 2
    /\ regex_entities[1].start = regex_entities[2].start
    /\ natasha_entities[1].start > regex_entities[1].start
    /\ all_entities = regex_entities \o natasha_entities

-----------------------------------------------------------------------------
(* The generators of PDAnonymizer called on their own: one call of one      *)
(* generator on an input string                                             *)

\* the digits the runs of the inputs are cut from
DigitSource ==
    <<"7", "8", "0", "1", "9", "2", "0", "5", "8", "8", "1", "5", "5", "8", "5", "7",
      "0", "1", "8", "5", "2", "8", "1", "2", "8", "0">>

\* a run of n digits
Run(n) == SubSeq(DigitSource, 1, n)

\* the digits d in groups of four with sep between the groups
RECURSIVE Grouped(_, _)
Grouped(d, sep) ==
    IF Len(d) <= 4 THEN d
    ELSE SubSeq(d, 1, 4) \o <<sep>> \o Grouped(SubSeq(d, 5, Len(d)), sep)

\* the shapes a run of digits is given in: plain, in groups separated by
\* spaces or hyphens, followed by a digit-like character that is no decimal
\* digit, and behind a word
Shapes(d) ==
    { d, Grouped(d, " "), Grouped(d, "-"), d \o <<"sup2">>, <<"N", " ">> \o d }

\* d with the character c put in behind the first p characters
PutIn(d, p, c) == SubSeq(d, 1, p) \o c \o SubSeq(d, p + 1, Len(d))

\* inputs at the edges of what the generators accept: passport numbers with
\* one space, two spaces, a tab and a newline between or behind the groups,
\* KLADR codes with a leading, a doubled, a trailing and many spaces and with a
\* tab, dotted strings that are no addresses, and a card number between letters
EdgeInputs ==
    { PutIn(Run(10), 4, <<" ">>), PutIn(Run(10), 2, <<" ">>),
      PutIn(Run(10), 4, <<" ", " ">>), PutIn(Run(10), 2, <<"\t">>),
      PutIn(Run(10), 10, <<"\n">>), PutIn(Run(10), 6, <<" ">>),
      PutIn(Run(9), 0, <<" ">>), PutIn(Run(9), 2, <<" ", " ">>),
      PutIn(Run(9), 9, <<" ">>), PutIn(Run(9), 2, <<"\t">>),
      <<"7", "7", " ", "0", "1", " ", "0", "0", "1", " ", "3", "6", " ", " ">>,
      <<"1", " ", "2", " ", "3", " ", "4", " ", "5", " ", "6", " ", "7", " ", "8",
        " ", "9">>,
      <<"a", ".", "b", ".", "c", ".", "d">>, <<".", ".", ".">>,
      <<"1", ".", "2", ".", "3">>, <<"9", "9", "9", ".", "1", ".", "1", ".", "1">>,
      <<"x">> \o Run(13) \o <<"y">>, <<"@">>, <<"a", "b">> }

\* the inputs: every shape of every run up to MaxRun digits, the fragments of
\* the texts, the empty and the blank string, a passport number in its spaced
\* form, an e-mail address with two "@" and the inputs at the edges
GenInputs ==
    UNION { Shapes(Run(n)) : n \in 1..MaxRun }
    \cup Fragments
    \cup { <<>>, <<" ">>,
           <<"7", "8", " ", "0", "1", " ", "9", "2", "0", "5", "8", "8">>,
           <<"a", "@", "b", "@", "c", ".", "d", "d">> }
    \cup EdgeInputs

InitGen ==
    /\ pc = "ready"
    /\ op = "none"
    /\ mode = "replace"
    /\ text \in GenInputs
    /\ name_features = NoFeatures
    /\ natasha_entities = <<>>
    /\ regex_entities = <<>>
    /\ all_entities = <<>>
    /\ replacements = <<>>
    /\ result_text = <<>>
    /\ random_state = <<>>

\* the random source before the first draw, its stream repeating the block b
Fresh(b) == [b |-> b, k |-> 0]

\* the call name returns ret = Ret(out, rnd) after drawing from Fresh(b)
Returns(name, ret, b) ==
    /\ result_text' = ret.out
    /\ random_state' = Variates(Fresh(b), ret.rnd.k)
    /\ op' = name
    /\ pc' = "done"
    /\ UNCHANGED <<mode, text, name_features, natasha_entities, regex_entities,
                   all_entities, replacements>>

\* the call name with the features f returns out; Faker draws are not recorded
ReturnsName(name, f, out) ==
    /\ result_text' = out
    /\ name_features' = f
    /\ random_state' = <<>>
    /\ op' = name
    /\ pc' = "done"
    /\ UNCHANGED <<mode, text, natasha_entities, regex_entities, all_entities,
                   replacements>>

AnonymizeInn ==
    pc = "ready" /\ \E b \in RandBlocks :
        Returns("anonymize_inn", anonymize_inn(text, Fresh(b)), b)

AnonymizeCard ==
    pc = "ready" /\ \E b \in RandBlocks :
        Returns("anonymize_card", anonymize_card(text, Fresh(b)), b)

AnonymizeOgrnip ==
    pc = "ready" /\ \E b \in RandBlocks :
        Returns("anonymize_ogrnip", anonymize_ogrnip(text, Fresh(b)), b)

AnonymizePassport ==
    pc = "ready" /\ \E b \in RandBlocks :
        Returns("anonymize_passport", anonymize_passport(text, Fresh(b)), b)

AnonymizeIp ==
    pc = "ready" /\ \E b \in RandBlocks :
        Returns("anonymize_ip", anonymize_ip(text, Fresh(b)), b)

AnonymizeBirthCert ==
    pc = "ready" /\ \E b \in RandBlocks :
        Returns("anonymize_birth_cert", anonymize_birth_cert(text, Fresh(b)), b)

AnonymizeKladr ==
    pc = "ready" /\ \E b \in RandBlocks :
        Returns("anonymize_kladr", anonymize_kladr(text, Fresh(b)), b)

AnonymizeName ==
    pc = "ready" /\ \E f \in {NoFeatures} \cup TokenFeats :
        \E out \in anonymize_name(text, f) : ReturnsName("anonymize_name", f, out)

AnonymizeLastName ==
    pc = "ready" /\ \E f \in {NoFeatures} \cup TokenFeats :
        \E out \in anonymize_last_name(text, f) :
            ReturnsName("anonymize_last_name", f, out)

AnonymizeEmail ==
    pc = "ready" /\ \E out \in anonymize_email(text) :
        ReturnsName("anonymize_email", NoFeatures, out)

NextGen ==
    \/ AnonymizeInn
    \/ AnonymizeCard
    \/ AnonymizeOgrnip
    \/ AnonymizePassport
    \/ AnonymizeIp
    \/ AnonymizeBirthCert
    \/ AnonymizeKladr
    \/ AnonymizeName
    \/ AnonymizeLastName
    \/ AnonymizeEmail

SpecGen == InitGen /\ [][NextGen]_vars

\* every character of s is a decimal digit
AllDecimal(s) == \A i \in 1..Len(s) : IsDecimal(s[i])

\* C4: for an input with 13 to 19 digits anonymize_card returns a text whose
\* digits pass luhn_algorithm, that is as long as the input and that has the
\* non-digit characters of the input unchanged in place, digits where the input
\* has digits
C4_CardKeepsShapeAndLuhn ==
    (pc = "done" /\ op = "anonymize_card"
     /\ CardMinDigits <= Len(OnlyDecimals(text))
     /\ Len(OnlyDecimals(text)) <= CardMaxDigits)
        => /\ luhn_algorithm(OnlyDecimals(result_text))
           /\ Len(result_text) = Len(text)
           /\ \A i \in 1..Len(text) :
                IF IsDecimal(text[i]) THEN i <= Len(result_text) /\ IsDecimal(result_text[i])
                ELSE i <= Len(result_text) /\ result_text[i] = text[i]

\* C5: on an input of 10 digits anonymize_inn returns 10 digits that
\* validate_inn accepts, on an input of 12 digits 12 digits that validate_inn
\* accepts
C5_InnOutputValid ==
    (pc = "done" /\ op = "anonymize_inn" /\ IsDigitStr(text) /\ Len(text) \in {10, 12})
        => /\ Len(result_text) = Len(text)
           /\ AllDecimal(result_text)
           /\ validate_inn(result_text)

\* a 12-digit INN made of two different random digits
C5_Witness ==
    /\ pc = "done" /\ op = "anonymize_inn"
    /\ Len(text) = 12 /\ Len(result_text) = 12
    /\ result_text[1] # result_text[2]
    /\ validate_inn(result_text)

\* C6: what a generator synthesizes for a checksummed identifier is valid
\* under the validator of the detector: for an input of 15 digits the text
\* anonymize_ogrnip returns is accepted by validate_ogrnip
C6_OgrnipOutputValid ==
    (pc = "done" /\ op = "anonymize_ogrnip" /\ Len(text) = 15 /\ AllDecimal(text))
        => validate_ogrnip(result_text)

\* s is two digits, two digits and six digits, with at most one whitespace
\* character between the groups
PassportShape(s) ==
    \E a, b \in {0, 1} :
        /\ Len(s) = 10 + a + b
        /\ AllDecimal(SubSeq(s, 1, 2))
        /\ a = 1 => IsSpace(s[3])
        /\ AllDecimal(SubSeq(s, 3 + a, 4 + a))
        /\ b = 1 => IsSpace(s[5 + a])
        /\ AllDecimal(SubSeq(s, 5 + a + b, Len(s)))

\* C14: anonymize_passport accepts the inputs of the shape DD\s?DD\s?DDDDDD and
\* no others: for these it returns the 12 characters 'DD DD DDDDDD' however the
\* input was spaced, for every other input the failure text
C14_PassportCanonicalForm ==
    (pc = "done" /\ op = "anonymize_passport")
        => IF PassportShape(text)
           THEN /\ Len(result_text) = 12
                /\ result_text[3] = " " /\ result_text[6] = " "
                /\ \A i \in (1..12) \ {3, 6} : IsDecimal(result_text[i])
           ELSE result_text = Sentinel

\* a number given as "DDDD DDDDDD" comes back as "DD DD DDDDDD"
C14_Witness ==
    /\ pc = "done" /\ op = "anonymize_passport"
    /\ Len(text) = 11 /\ text[5] = " "
    /\ Len(result_text) = 12 /\ result_text[3] = " " /\ result_text[6] = " "

\* what stands behind the first '@' of s, for an s with an '@'
BehindFirstAt(s) ==
    LET k == CHOOSE i \in 1..Len(s) : s[i] = "@" /\ \A j \in 1..(i - 1) : s[j] # "@"
    IN  SubSeq(s, k + 1, Len(s))

\* C15: for an input with an '@' anonymize_email returns a user name of the
\* name source, '@' and everything behind the first '@' of the input, further
\* '@' included: nothing before the first '@' shows in the output; for an
\* input without '@' it returns the failure text
C15_EmailKeepsDomainOnly ==
    (pc = "done" /\ op = "anonymize_email")
        => IF \E i \in 1..Len(text) : text[i] = "@"
           THEN \E new_local \in user_name :
                    result_text = new_local \o <<"@">> \o BehindFirstAt(text)
           ELSE result_text = Sentinel

\* an address with two '@': all behind the first is kept
C15_Witness ==
    /\ pc = "done" /\ op = "anonymize_email"
    /\ text = <<"a", "@", "b", "@", "c", ".", "d", "d">>
    /\ result_text = <<"u", "1", "@", "b", "@", "c", ".", "d", "d">>

\* s is made of decimal digits and spaces only, nine digits or more
DigitsAndSpaces(s) ==
    /\ \A i \in 1..Len(s) : IsDecimal(s[i]) \/ s[i] = " "
    /\ Len(OnlyDecimals(s)) >= 9

\* C18: for an input of digits and spaces only, with nine digits or more and
\* no space at its end, anonymize_kladr returns a text as long as the input,
\* with a space exactly where the input has one and a digit everywhere else
C18_KladrKeepsFormat ==
    (pc = "done" /\ op = "anonymize_kladr" /\ DigitsAndSpaces(text)
     /\ text[Len(text)] # " ")
        => /\ Len(result_text) = Len(text)
           /\ \A i \in 1..Len(text) :
                IF text[i] = " " THEN result_text[i] = " "
                ELSE IsDecimal(result_text[i])

\* a code with a space in front and one with two spaces in a row
C18_Witness ==
    /\ pc = "done" /\ op = "anonymize_kladr"
    /\ Len(text) = 11 /\ text[3] = " " /\ text[4] = " "
    /\ Len(result_text) = 11 /\ result_text[3] = " " /\ result_text[4] = " "
    /\ IsDecimal(result_text[5])

\* the number of spaces at the end of s
RECURSIVE TrailingSpaces(_)
TrailingSpaces(s) ==
    IF s # <<>> /\ s[Len(s)] = " " THEN 1 + TrailingSpaces(SubSeq(s, 1, Len(s) - 1))
    ELSE 0

\* C19 as stated: for the shape 'DD DD DDD DD' some space of the input is not
\* met by a space at the same offset of the output
C19_SpaceLandsElsewhere ==
    (pc = "done" /\ op = "anonymize_kladr"
     /\ Len(text) = 12 /\ DigitsAndSpaces(text)
     /\ \A i \in 1..12 : text[i] = " " <=> i \in {3, 6, 10})
        => \E i \in {3, 6, 10} : i > Len(result_text) \/ result_text[i] # " "

\* C19, amended: the reinsertion is offset-stable also for many spaces: for
\* an input of digits and spaces with nine digits or more every space that has
\* a digit somewhere behind it comes back at its own offset and the output has
\* spaces nowhere else; only the spaces at the end of the input are dropped,
\* the output being shorter by their number
C19_KladrSpacesStayInPlace ==
    (pc = "done" /\ op = "anonymize_kladr" /\ DigitsAndSpaces(text))
        => /\ Len(result_text) = Len(text) - TrailingSpaces(text)
           /\ \A i \in 1..Len(result_text) : result_text[i] = " " <=> text[i] = " "

\* 'DD DD DDD DD' followed by two spaces: the three spaces inside come back
\* in place, the two at the end do not come back
C19_Witness ==
    /\ pc = "done" /\ op = "anonymize_kladr"
    /\ Len(text) = 14 /\ TrailingSpaces(text) = 2
    /\ Len(result_text) = 12
    /\ \A i \in 1..12 : result_text[i] = " " <=> i \in {3, 6, 10}

\* int(d) for a string d of at most 9 decimal digits
RECURSIVE ValueOf(_)
ValueOf(d) ==
    IF d = <<>> THEN 0 ELSE 10 * ValueOf(SubSeq(d, 1, Len(d) - 1)) + DigitVal(d[Len(d)])

\* int(d) mod 13 for 14 decimal digits, from their two halves: 10^7 = 10
\* modulo 13
Mod13(d) == (10 * ValueOf(SubSeq(d, 1, 7)) + ValueOf(SubSeq(d, 8, 14))) % 13

GeneratorCalls ==
    { "anonymize_inn", "anonymize_card", "anonymize_ogrnip", "anonymize_passport",
      "anonymize_ip", "anonymize_birth_cert", "anonymize_kladr", "anonymize_name",
      "anonymize_last_name", "anonymize_email" }

\* s has a character that is neither a digit nor one of the characters allowed
OtherThan(s, allowed) == \E i \in 1..Len(s) : ~IsDigit(s[i]) /\ s[i] \notin allowed

\* the input s is malformed for the call: it is empty, it has the wrong number
\* of digits, or it has a character that is no digit where the identifier has
\* digits (the separators of the identifier apart)
Malformed(call, s) ==
    \/ s = <<>>
    \/ CASE call = "anonymize_inn" -> OtherThan(s, {}) \/ Len(s) \notin {10, 12}
         [] call = "anonymize_ogrnip" -> OtherThan(s, {}) \/ Len(s) # 15
         [] call = "anonymize_card" ->
                \/ OtherThan(s, {" ", "-"})
                \/ Len(SelectSeq(s, IsDigit)) \notin CardMinDigits..CardMaxDigits
         [] call = "anonymize_passport" ->
                OtherThan(s, {" ", "\t", "\n"}) \/ Len(SelectSeq(s, IsDigit)) # 10
         [] call = "anonymize_ip" ->
                OtherThan(s, {"."}) \/ Len(SelectSeq(s, IsDigit)) \notin 4..12
         [] call = "anonymize_kladr" ->
                OtherThan(s, {" ", "\t", "\n"}) \/ Len(SelectSeq(s, IsDigit)) < 9
         [] call = "anonymize_birth_cert" -> Len(SelectSeq(s, IsDigit)) # 6
         [] call \in {"anonymize_name", "anonymize_last_name"} ->
                \E i \in 1..Len(s) : IsDigit(s[i])
         [] OTHER -> FALSE

\* C11: a generator called on a malformed input (empty, the wrong number of
\* digits, a character that is no digit where the identifier has digits)
\* returns the failure text and no generated value
C11_MalformedInputYieldsSentinel ==
    (pc = "done" /\ op \in GeneratorCalls /\ Malformed(op, text))
        => result_text = Sentinel

-----------------------------------------------------------------------------
(* The detector called on its own: RegexNER.extract_entities(text)          *)

\* the texts: a run of up to MaxRun digits whose last two digits are free,
\* plain or in groups of four, alone, behind a valid 10-digit INN and before a
\* word, or with a letter right behind it
DetectTexts ==
    { c[1] \o shape \o c[2] :
        c \in { <<<<>>, <<>>>>,
                <<Run(10) \o <<" ">>, <<" ", "x">>>>,
                <<<<>>, <<"x">>>> },
        shape \in UNION { { Run(n - 2) \o <<a, b>>, Grouped(Run(n - 2) \o <<a, b>>, " ") } :
                            n \in 2..MaxRun, a \in DigitChars, b \in DigitChars } }

InitDetect ==
    /\ pc = "ready"
    /\ op = "none"
    /\ mode = "mask"
    /\ text \in DetectTexts
    /\ name_features = NoFeatures
    /\ natasha_entities = <<>>
    /\ regex_entities = <<>>
    /\ all_entities = <<>>
    /\ replacements = <<>>
    /\ result_text = <<>>
    /\ random_state = <<>>

ExtractEntities ==
    /\ pc = "ready"
    /\ regex_entities' = extract_entities(text)
    /\ op' = "extract_entities"
    /\ pc' = "done"
    /\ UNCHANGED <<mode, text, name_features, natasha_entities, all_entities,
                   replacements, result_text, random_state>>

NextDetect == ExtractEntities

SpecDetect == InitDetect /\ [][NextDetect]_vars

\* the entities of the list with the tag
Tagged(entities, tag) == SelectSeq(entities, LAMBDA e : e.tag = tag)

\* C8: an entity tagged INN spans exactly 10 or exactly 12 digits
C8_InnSpansTenOrTwelve ==
    (pc = "done" /\ op = "extract_entities")
        => \A i \in 1..Len(regex_entities) :
             regex_entities[i].tag = "INN"
                => /\ regex_entities[i].end - regex_entities[i].start \in {10, 12}
                   /\ AllDecimal(Group(text, regex_entities[i]))

\* the entity reported for the k-th match of a pattern: its tag, its span and
\* its validity
ReportedAs(entities, k, tag, m, validity) ==
    /\ entities[k].tag = tag
    /\ entities[k].start = m.start /\ entities[k].end = m.end
    /\ entities[k].feats = validity

\* C9: every match of the card pattern is reported as CARD_NUMBER, valid_card
\* if luhn_algorithm holds of its digits and invalid_card if not, and every
\* match of the INN pattern as INN, valid_inn if validate_inn holds and
\* invalid_inn if not; none is dropped and nothing else carries these tags
C9_InvalidMatchesAreReported ==
    (pc = "done" /\ op = "extract_entities")
        => LET cards == FindIter(MatchEnds("card", text), 0)
               inns == FindIter(MatchEnds("inn", text), 0)
               asCard == Tagged(regex_entities, "CARD_NUMBER")
               asInn == Tagged(regex_entities, "INN")
           IN  /\ Len(asCard) = Len(cards)
               /\ \A k \in 1..Len(cards) :
                    ReportedAs(asCard, k, "CARD_NUMBER", cards[k],
                               IF luhn_algorithm(StripSeparators(Group(text, cards[k])))
                               THEN "valid_card" ELSE "invalid_card")
               /\ Len(asInn) = Len(inns)
               /\ \A k \in 1..Len(inns) :
                    ReportedAs(asInn, k, "INN", inns[k],
                               IF validate_inn(StripSeparators(Group(text, inns[k])))
                               THEN "valid_inn" ELSE "invalid_inn")

\* a text in which a card number that fails Luhn and a valid INN are reported
C9_Witness ==
    /\ pc = "done" /\ op = "extract_entities"
    /\ \E i, j \in 1..Len(regex_entities) :
         /\ regex_entities[i].tag = "CARD_NUMBER"
         /\ regex_entities[i].feats = "invalid_card"
         /\ regex_entities[j].tag = "INN"
         /\ regex_entities[j].feats = "valid_inn"

\* int(d) mod 11 of a digit string d by the alternating sum of its digits from
\* the right (10 = -1 modulo 11), the sum kept non-negative by 11 * Len(d)
RECURSIVE AlternatingSum(_, _)
AlternatingSum(d, sign) ==
    IF d = <<>> THEN 0
    ELSE sign * DigitVal(d[Len(d)]) + AlternatingSum(SubSeq(d, 1, Len(d) - 1), -sign)

Mod11(d) == (AlternatingSum(d, 1) + 11 * Len(d)) % 11

\* C10: an entity tagged OGRNIP is a run of 15 digits whose 15th digit is
\* int(first 14 digits) mod 11 mod 10, reported as valid: no run that fails
\* this check is reported with the tag
C10_OgrnipOnlyWhenValid ==
    (pc = "done" /\ op = "extract_entities")
        => \A i \in 1..Len(regex_entities) :
             regex_entities[i].tag = "OGRNIP"
                => LET g == Group(text, regex_entities[i])
                   IN  /\ Len(g) = 15
                       /\ AllDecimal(g)
                       /\ DigitVal(g[15]) = Mod11(SubSeq(g, 1, 14)) % 10
                       /\ regex_entities[i].feats = "valid_ogrnip"

\* a 15-digit run is reported as OGRNIP
C10_Witness ==
    /\ pc = "done" /\ op = "extract_entities"
    /\ \E i \in 1..Len(regex_entities) :
         /\ regex_entities[i].tag = "OGRNIP"
         /\ regex_entities[i].end - regex_entities[i].start = 15

-----------------------------------------------------------------------------
(* The INN check called on its own: RegexNER.validate_inn(inn)              *)

\* the 10-digit strings the check is called on: the first eight digits of
\* the INN of the fragments followed by any two digits, and every string that
\* differs from one of these in one digit
InnTexts ==
    { [Run(8) \o <<a, c>> EXCEPT ![i] = d] :
        a \in DigitChars, c \in DigitChars, i \in 1..10, d \in DigitChars }

InitInn ==
    /\ pc = "ready"
    /\ op = "none"
    /\ mode = "mask"
    /\ text \in InnTexts
    /\ name_features = NoFeatures
    /\ natasha_entities = <<>>
    /\ regex_entities = <<>>
    /\ all_entities = <<>>
    /\ replacements = <<>>
    /\ result_text = <<>>
    /\ random_state = <<>>

\* result_text is <<"True">> or <<"False">>, what validate_inn returned
ValidateInn ==
    /\ pc = "ready"
    /\ result_text' = IF validate_inn(text) THEN <<"True">> ELSE <<"False">>
    /\ op' = "validate_inn"
    /\ pc' = "done"
    /\ UNCHANGED <<mode, text, name_features, natasha_entities, regex_entities,
                   all_entities, replacements, random_state>>

NextInn == ValidateInn

SpecInn == InitInn /\ [][NextInn]_vars

\* the weighted sum of the first nine digits of d, modulo 11
InnSum11(d) ==
    (2 * DigitVal(d[1]) + 4 * DigitVal(d[2]) + 10 * DigitVal(d[3]) + 3 * DigitVal(d[4])
     + 5 * DigitVal(d[5]) + 9 * DigitVal(d[6]) + 4 * DigitVal(d[7]) + 6 * DigitVal(d[8])
     + 8 * DigitVal(d[9])) % 11

\* a 10-digit string whose tenth digit is its weighted sum mod 11 mod 10
InnAccepted(d) == DigitVal(d[10]) = InnSum11(d) % 10

\* the accepted 10-digit strings of which d is a change of exactly one digit,
\* with the place of the change
ChangedFrom(d) ==
    { w \in { [at |-> i, inn |-> [d EXCEPT ![i] = c]] : i \in 1..10, c \in DigitChars } :
        w.inn # d /\ InnAccepted(w.inn) }

\* C21 as stated: a 10-digit string that is a change of exactly one digit of
\* a string validate_inn accepts is rejected by validate_inn
C21_SingleChangeRejected ==
    (pc = "done" /\ op = "validate_inn" /\ ChangedFrom(text) # {})
        => result_text = <<"False">>

\* C21, amended: a change of the tenth digit is always rejected, and a change
\* of one of the first nine is rejected unless it takes the weighted sum
\* modulo 11 from 0 to 10 or from 10 to 0, which both give the control digit 0
C21_SingleChangeRejectedUnlessZeroAndTen ==
    (pc = "done" /\ op = "validate_inn")
        => \A w \in ChangedFrom(text) :
              result_text = <<"True">>
                 <=> /\ w.at <= 9
                     /\ {InnSum11(w.inn), InnSum11(text)} = {0, 10}

\* the accepted 7801920500 with its first digit changed into 2 is accepted
C21_Witness ==
    /\ pc = "done" /\ op = "validate_inn"
    /\ text = <<"2", "8", "0", "1", "9", "2", "0", "5", "0", "0">>
    /\ result_text = <<"True">>
    /\ \E w \in ChangedFrom(text) : w.at = 1 /\ w.inn[1] = "7"

-----------------------------------------------------------------------------
(* The pattern detector and the generators together *)

\* the tags of the pattern detector that _get_replacement hands to a generator
DetectedAndGenerated ==
    {"CARD_NUMBER", "OGRNIP", "IP_ADDRESS", "EMAIL", "BIRTH_CERT", "KLADR"}

\* C25: in replace mode the generator accepts every span the pattern detector
\* reports under one of these six tags: its replacement is a generated value,
\* never the failure text, so the failure text is not put into the text for it
C25_DetectedSpanIsAccepted ==
    (pc = "done" /\ mode = "replace"
     /\ op \in {"anonymize", "extract_and_anonymize"})
        => \A i \in 1..Len(all_entities) :
             all_entities[i].tag \in DetectedAndGenerated
                => /\ replacements[i].start = all_entities[i].start
                   /\ replacements[i].end = all_entities[i].end
                   /\ replacements[i].repl # Sentinel

\* an IP address followed by a KLADR code: both are reported and both are
\* given a generated value of their own form
C25_Witness ==
    /\ pc = "done" /\ mode = "replace"
    /\ text = <<"1", ".", "2", ".", "3", ".", "4", " ",
                "7", "7", " ", "0", "1", " ", "0", "0", "1", " ", "3", "6">>
    /\ \E i, j \in 1..Len(all_entities) :
         /\ all_entities[i].tag = "IP_ADDRESS" /\ all_entities[j].tag = "KLADR"
         /\ CountOf(replacements[i].repl, ".") = 3
         /\ DigitsAndSpaces(replacements[j].repl)
         /\ replacements[i].repl # Sentinel /\ replacements[j].repl # Sentinel

=============================================================================
